---- MODULE Spec2Model ----
(***************************************************************************)
(* A model of gcloud/_helpers.py: the thread-local LIFO resource stack     *)
(* (_LocalStack), the Compute Engine metadata probe (_compute_engine_id),  *)
(* the sequence validator (_ensure_tuple_or_list) and the datetime to      *)
(* milliseconds conversion (_millis).                                      *)
(***************************************************************************)
EXTENDS Integers, Sequences, FiniteSets, TLC

VARIABLES
    local,      \* _LocalStack: per execution context, the instance dict of the local object
    log,        \* per execution context, the calls it made and what each returned
    pc,         \* _compute_engine_id: position in the function body
    net,        \* _compute_engine_id: how the metadata endpoint behaves during this call
    conn,       \* _compute_engine_id: state of the HTTPConnection the call created
    probe,      \* _compute_engine_id: the call's outcome (returned value, raised exception)
    seqArg,     \* _ensure_tuple_or_list: the argument tuple_or_list
    seqOut,     \* _ensure_tuple_or_list: the call's outcome
    when,       \* _millis: the zone-aware datetime passed in
    millisOut   \* _millis: the call's outcome

stackVars  == <<local, log>>
probeVars  == <<pc, net, conn, probe>>
ensureVars == <<seqArg, seqOut>>
millisVars == <<when, millisOut>>
vars == <<local, log, pc, net, conn, probe, seqArg, seqOut, when, millisOut>>

\* Python's None.
None == "None"

(***************************************************************************)
(* _LocalStack                                                             *)
(***************************************************************************)

\* Execution contexts (threads) that use the one _LocalStack object, and the
\* thread that constructs it.
Threads == {"t1", "t2"}
Creator == "t1"
\* Resources pushed by callers (opaque values; duplicates allowed).
Resources == {"a", "b"}
\* Total number of calls made on the stack, over all threads.
MaxOps == 6

\* A thread that has not touched the local object yet has no instance dict.
NoDict == [inited |-> FALSE, stack |-> <<>>]

\* threading.local keeps one instance dict per calling thread.
SharedKey(t) == Creator
LocalKey(t) == t

\* __init__: self._stack = []
NewStack == <<>>

\* self._stack as thread t reads it: threading.local runs __init__ in a
\* thread on that thread's first access to the object.
Stack(t) ==
    IF local[LocalKey(t)].inited THEN local[LocalKey(t)].stack ELSE NewStack

\* The instance dicts after thread t's call left its list as s.
Store(t, s) == [local EXCEPT ![LocalKey(t)] = [inited |-> TRUE, stack |-> s]]

\* self._stack.append(resource)
PushFront(s, r) == <<r>> \o s
PushList(s, r) == Append(s, r)

\* self._stack.pop(): removes and returns the last item; IndexError when empty.
PopSilent(s) ==
    IF Len(s) = 0
    THEN [err |-> None, ret |-> None, stack |-> s]
    ELSE [err |-> None, ret |-> s[Len(s)], stack |-> SubSeq(s, 1, Len(s) - 1)]
PopKeep(s) ==
    IF Len(s) = 0
    THEN [err |-> "IndexError", ret |-> None, stack |-> s]
    ELSE [err |-> None, ret |-> s[Len(s)], stack |-> s]
PopList(s) ==
    IF Len(s) = 0
    THEN [err |-> "IndexError", ret |-> None, stack |-> s]
    ELSE [err |-> None, ret |-> s[Len(s)], stack |-> SubSeq(s, 1, Len(s) - 1)]

\* top: self._stack[-1] if len(self._stack) > 0, else falls off the end (None).
TopFirst(s) == IF Len(s) > 0 THEN s[1] ELSE None
TopOf(s) == IF Len(s) > 0 THEN s[Len(s)] ELSE None

\* reversed(self._stack)
Forward(s) == s
Reversed(s) == [i \in 1..Len(s) |-> s[Len(s) + 1 - i]]

\* One logged call: the operation, its argument, the value returned (ret) or
\* the sequence yielded (seq), the exception raised, and the caller's list
\* after the call.
Event(op, arg, ret, seq, err, post) ==
    [op |-> op, arg |-> arg, ret |-> ret, seq |-> seq, err |-> err, post |-> post]

Calls == LET RECURSIVE Sum(_)
             Sum(S) == IF S = {} THEN 0
                       ELSE LET t == CHOOSE x \in S : TRUE
                            IN Len(log[t]) + Sum(S \ {t})
         IN Sum(Threads)

Logged(t, e) == [log EXCEPT ![t] = Append(@, e)]

InitStack ==
    /\ local = [t \in Threads |->
                   IF t = LocalKey(Creator) THEN [inited |-> TRUE, stack |-> NewStack]
                   ELSE NoDict]
    /\ log = [t \in Threads |-> <<>>]

IdleStack ==
    /\ local = [t \in Threads |-> NoDict]
    /\ log = [t \in Threads |-> <<>>]

push(t, r) ==
    /\ Calls < MaxOps
    /\ local' = Store(t, PushList(Stack(t), r))
    /\ log' = Logged(t, Event("push", r, None, <<>>, None, local'[LocalKey(t)].stack))
    /\ UNCHANGED <<probeVars, ensureVars, millisVars>>

pop(t) ==
    /\ Calls < MaxOps
    /\ LET p == PopList(Stack(t))
       IN /\ local' = Store(t, p.stack)
          /\ log' = Logged(t, Event("pop", None, p.ret, <<>>, p.err,
                                    local'[LocalKey(t)].stack))
    /\ UNCHANGED <<probeVars, ensureVars, millisVars>>

top(t) ==
    /\ Calls < MaxOps
    /\ local' = Store(t, Stack(t))
    /\ log' = Logged(t, Event("top", None, TopOf(Stack(t)), <<>>, None,
                              local'[LocalKey(t)].stack))
    /\ UNCHANGED <<probeVars, ensureVars, millisVars>>

iter(t) ==
    /\ Calls < MaxOps
    /\ local' = Store(t, Stack(t))
    /\ log' = Logged(t, Event("iter", None, None, Reversed(Stack(t)), None,
                              local'[LocalKey(t)].stack))
    /\ UNCHANGED <<probeVars, ensureVars, millisVars>>

IdleProbe == pc = "idle" /\ net = None /\ conn = None /\ probe = None
IdleEnsure == seqArg = None /\ seqOut = None
IdleMillis == when = None /\ millisOut = None

Init == InitStack /\ IdleProbe /\ IdleEnsure /\ IdleMillis

Next ==
    \/ \E t \in Threads, r \in Resources : push(t, r)
    \/ \E t \in Threads : pop(t)
    \/ \E t \in Threads : top(t)
    \/ \E t \in Threads : iter(t)

Spec == Init /\ [][Next]_vars

(***************************************************************************)
(* Properties of _LocalStack                                               *)
(***************************************************************************)

\* The caller's list before its i-th call: what its previous call left, or
\* the list of a context that has made no call yet.
PreOf(t, i) == IF i = 1 THEN <<>> ELSE log[t][i - 1].post

\* The elements a context pushed and has not popped, oldest first, after the
\* calls in h.
RECURSIVE Unpopped(_)
Unpopped(h) ==
    IF h = <<>> THEN <<>>
    ELSE LET e == h[Len(h)]
             u == Unpopped(SubSeq(h, 1, Len(h) - 1))
         IN IF e.op = "push" THEN Append(u, e.arg)
            ELSE IF e.op = "pop" /\ e.err = None THEN SubSeq(u, 1, Len(u) - 1)
            ELSE u

Before(t, i) == Unpopped(SubSeq(log[t], 1, i - 1))

IsPushPop(e) == e.op \in {"push", "pop"}

\* Number of leading pushes of a sequence of push and pop calls.
RECURSIVE LeadingPushes(_)
LeadingPushes(h) ==
    IF h = <<>> \/ h[1].op # "push" THEN 0 ELSE 1 + LeadingPushes(Tail(h))

\* C1: LIFO order. When a context's push and pop calls so far are n pushes
\* followed by k <= n pops, the j-th pop returned the (n-j+1)-th pushed
\* resource without error, and after the n-th pop the stack is empty.
LifoOrder ==
    \A t \in Threads :
        LET h == SelectSeq(log[t], IsPushPop)
            n == LeadingPushes(h)
            k == Len(h) - n
        IN (/\ n >= 1
            /\ k <= n
            /\ \A j \in 1..k : h[n + j].op = "pop")
           => /\ \A j \in 1..k : /\ h[n + j].err = None
                                 /\ h[n + j].ret = h[n - j + 1].arg
              /\ (k = n => /\ k > 0 => h[n + k].post = <<>>
                           /\ Stack(t) = <<>>)

LifoOrderWitness ==
    \E t \in Threads :
        /\ Len(log[t]) = 4
        /\ log[t][1].op = "push" /\ log[t][1].arg = "a"
        /\ log[t][2].op = "push" /\ log[t][2].arg = "b"
        /\ log[t][3].op = "pop" /\ log[t][3].ret = "b"
        /\ log[t][4].op = "pop" /\ log[t][4].ret = "a"
        /\ Stack(t) = <<>>

\* C2: a pop made while the calling context has nothing pushed and not yet
\* popped (a fresh stack, or one emptied by earlier pops) raises IndexError,
\* returns nothing, and leaves the stack empty.
PopEmptyFails ==
    \A t \in Threads :
        \A i \in 1..Len(log[t]) :
            (log[t][i].op = "pop" /\ Before(t, i) = <<>>)
            => /\ log[t][i].err = "IndexError"
               /\ log[t][i].ret = None
               /\ log[t][i].post = <<>>
               /\ (i = Len(log[t]) => Stack(t) = <<>>)

PopEmptyFailsWitness ==
    \E t \in Threads :
        /\ Len(log[t]) = 4
        /\ log[t][1].op = "pop" /\ log[t][1].err = "IndexError"
        /\ log[t][2].op = "push"
        /\ log[t][3].op = "pop" /\ log[t][3].err = None
        /\ log[t][4].op = "pop" /\ log[t][4].err = "IndexError"
        /\ Stack(t) = <<>>

\* C3: top raises nothing and leaves the stack as it was; it returns the
\* most recently pushed resource not yet popped, or None when there is
\* none; a top right after push(x) returns x, and a pop right after that
\* top still returns x.
TopPeeks ==
    \A t \in Threads :
        \A i \in 1..Len(log[t]) :
            log[t][i].op = "top"
            => LET u == Before(t, i)
               IN /\ log[t][i].err = None
                  /\ log[t][i].post = PreOf(t, i)
                  /\ log[t][i].ret = IF u = <<>> THEN None ELSE u[Len(u)]
                  /\ (i > 1 /\ log[t][i - 1].op = "push")
                     => /\ log[t][i].ret = log[t][i - 1].arg
                        /\ (i < Len(log[t]) /\ log[t][i + 1].op = "pop")
                           => /\ log[t][i + 1].err = None
                              /\ log[t][i + 1].ret = log[t][i - 1].arg

TopPeeksWitness ==
    \E t \in Threads :
        /\ Len(log[t]) = 5
        /\ log[t][1].op = "top" /\ log[t][1].ret = None
        /\ log[t][2].op = "push" /\ log[t][2].arg = "a"
        /\ log[t][3].op = "push" /\ log[t][3].arg = "b"
        /\ log[t][4].op = "top" /\ log[t][4].ret = "b"
        /\ log[t][5].op = "pop" /\ log[t][5].ret = "b"

\* C4: iteration yields the context's current contents, most recently
\* pushed first, and leaves the stack as it was; two iterations in a row
\* yield the same sequence; with nothing pushed it yields nothing.
IterReversed ==
    \A t \in Threads :
        \A i \in 1..Len(log[t]) :
            log[t][i].op = "iter"
            => LET u == Before(t, i)
                   y == log[t][i].seq
               IN /\ log[t][i].err = None
                  /\ log[t][i].post = PreOf(t, i)
                  /\ Len(y) = Len(u)
                  /\ \A k \in 1..Len(u) : y[k] = u[Len(u) + 1 - k]
                  /\ (i > 1 /\ log[t][i - 1].op = "iter") => y = log[t][i - 1].seq

IterReversedWitness ==
    \E t \in Threads :
        /\ Len(log[t]) = 5
        /\ log[t][1].op = "push" /\ log[t][1].arg = "a"
        /\ log[t][2].op = "push" /\ log[t][2].arg = "a"
        /\ log[t][3].op = "push" /\ log[t][3].arg = "b"
        /\ log[t][4].op = "iter" /\ log[t][4].seq = <<"b", "a", "a">>
        /\ log[t][5].op = "iter" /\ log[t][5].seq = <<"b", "a", "a">>
        /\ Stack(t) = <<"a", "a", "b">>

\* What a context's calls return when made on a list no one else touches.
RECURSIVE Alone(_)
Alone(calls) ==
    IF calls = <<>> THEN <<>>
    ELSE LET done == Alone(SubSeq(calls, 1, Len(calls) - 1))
             s == IF done = <<>> THEN <<>> ELSE done[Len(done)].post
             c == calls[Len(calls)]
         IN Append(done,
                CASE c.op = "push" -> Event("push", c.arg, None, <<>>, None, PushList(s, c.arg))
                  [] c.op = "pop" -> Event("pop", None, PopList(s).ret, <<>>,
                                           PopList(s).err, PopList(s).stack)
                  [] c.op = "top" -> Event("top", None, TopOf(s), <<>>, None, s)
                  [] c.op = "iter" -> Event("iter", None, None, Reversed(s), None, s))

\* C5: per-context isolation. Whatever the interleaving, every call of a
\* thread returned what it would have returned had that thread been the only
\* user of the object, starting from an empty stack, and the thread's
\* current stack is the one its own calls built.
Isolation ==
    \A t \in Threads :
        /\ log[t] = Alone(log[t])
        /\ Stack(t) = Unpopped(log[t])

IsolationWitness ==
    /\ Len(log["t1"]) = 2
    /\ log["t1"][1].op = "push" /\ log["t1"][1].arg = "a"
    /\ log["t1"][2].op = "top" /\ log["t1"][2].ret = "a"
    /\ Len(log["t2"]) = 3
    /\ log["t2"][1].op = "top" /\ log["t2"][1].ret = None
    /\ log["t2"][2].op = "push" /\ log["t2"][2].arg = "b"
    /\ log["t2"][3].op = "iter" /\ log["t2"][3].seq = <<"b">>

\* Calls a..b of context t are properly nested scopes: every pop closes a
\* push made within a..b, and no push within a..b is left open.
RECURSIVE Depth(_, _, _)
Depth(t, a, b) ==
    IF a > b THEN 0
    ELSE LET d == Depth(t, a, b - 1)
         IN IF d < 0 THEN -1
            ELSE IF log[t][b].op = "push" THEN d + 1
            ELSE IF log[t][b].op = "pop" THEN d - 1
            ELSE d

Nested(t, a, b) == Depth(t, a, b) = 0

\* C9: scoped push/pop restores the stack. When call i of a context is a
\* push, call j a pop, and the calls between them are properly nested
\* scopes, the pop returns the resource pushed by call i and leaves the
\* stack as it was before call i; a top made inside the scope, with every
\* inner scope closed, returns the resource pushed by call i.
ScopedRestore ==
    \A t \in Threads :
        \A i \in 1..Len(log[t]) :
            log[t][i].op = "push"
            => \A j \in (i + 1)..Len(log[t]) :
                  Nested(t, i + 1, j - 1)
                  => /\ log[t][j].op = "pop"
                        => /\ log[t][j].err = None
                           /\ log[t][j].ret = log[t][i].arg
                           /\ log[t][j].post = PreOf(t, i)
                           /\ (j = Len(log[t]) => Stack(t) = PreOf(t, i))
                     /\ log[t][j].op = "top" => log[t][j].ret = log[t][i].arg

ScopedRestoreWitness ==
    \E t \in Threads :
        /\ Len(log[t]) = 5
        /\ log[t][1].op = "push" /\ log[t][1].arg = "b"
        /\ log[t][2].op = "push" /\ log[t][2].arg = "a"
        /\ log[t][3].op = "push" /\ log[t][3].arg = "b"
        /\ log[t][4].op = "pop" /\ log[t][4].ret = "b"
        /\ log[t][5].op = "pop" /\ log[t][5].ret = "a"
        /\ Stack(t) = <<"b">>

(***************************************************************************)
(* _compute_engine_id                                                      *)
(***************************************************************************)

\* response.status == 200
HTTP_OK == 200

\* socket.error and its subclasses, as the calls on the connection raise them.
SocketErrors == {"socket.timeout", "ECONNREFUSED", "EHOSTDOWN", "ECONNRESET"}
\* Exceptions of the HTTP layer, which are not socket.error.
HttpErrors == {"BadStatusLine", "IncompleteRead"}

\* How the endpoint can behave: the outcome of connection.request(), of
\* connection.getresponse(), the status of the response, the outcome of
\* response.read(), and the body sent.
RequestOutcomes == {"ok", "socket.timeout", "ECONNREFUSED", "EHOSTDOWN", "BadStatusLine"}
ResponseOutcomes == {"ok", "socket.timeout", "ECONNRESET", "BadStatusLine"}
ReadOutcomes == {"ok", "socket.timeout", "IncompleteRead"}
Statuses == {HTTP_OK, 204, 404, 500}
Bodies == {"", "project-a", "project-b"}

Endpoints == [request : RequestOutcomes, response : ResponseOutcomes,
              status : Statuses, read : ReadOutcomes, body : Bodies]

\* except socket.error:
CaughtTimeoutOnly(exc) == exc = "socket.timeout"
Caught(exc) == exc \in SocketErrors

\* if response.status == 200:
StatusOk(status) == status = HTTP_OK

\* finally: connection.close(), whatever the try block ended with.
CloseAfterTry(c, exc) == IF exc = None THEN "closed" ELSE c
Close(c, exc) == "closed"

\* What the try block is ending with: a value being returned, an exception
\* in flight; raised is the exception that has left the function.
Pending(ret, exc) == [ret |-> ret, exc |-> exc, raised |-> None]

\* An exception raised inside the try block goes to the except clause when
\* it is a socket.error and otherwise straight to the finally clause.
Raise(exc) ==
    /\ pc' = IF Caught(exc) THEN "except" ELSE "finally"
    /\ probe' = Pending(None, exc)

InitProbe ==
    /\ pc = "start"
    /\ net \in Endpoints
    /\ conn = None
    /\ probe = Pending(None, None)

\* connection = HTTPConnection(host, timeout=0.1): no socket yet.
Connect ==
    /\ pc = "start"
    /\ conn' = "new"
    /\ pc' = "request"
    /\ UNCHANGED <<net, probe, stackVars, ensureVars, millisVars>>

\* connection.request('GET', uri_path, headers=headers): connects, then sends.
Request ==
    /\ pc = "request"
    /\ IF net.request = "ok"
       THEN /\ conn' = "open"
            /\ pc' = "getresponse"
            /\ UNCHANGED probe
       ELSE /\ conn' = IF net.request \in {"ECONNREFUSED", "EHOSTDOWN"} THEN "new" ELSE "open"
            /\ Raise(net.request)
    /\ UNCHANGED <<net, stackVars, ensureVars, millisVars>>

\* response = connection.getresponse()
GetResponse ==
    /\ pc = "getresponse"
    /\ IF net.response = "ok"
       THEN pc' = "status" /\ UNCHANGED probe
       ELSE Raise(net.response)
    /\ UNCHANGED <<net, conn, stackVars, ensureVars, millisVars>>

\* if response.status == 200: ... else fall out of the try block.
CheckStatus ==
    /\ pc = "status"
    /\ pc' = IF StatusOk(net.status) THEN "read" ELSE "finally"
    /\ UNCHANGED <<net, conn, probe, stackVars, ensureVars, millisVars>>

\* return response.read()
Read ==
    /\ pc = "read"
    /\ IF net.read = "ok"
       THEN pc' = "finally" /\ probe' = Pending(net.body, None)
       ELSE Raise(net.read)
    /\ UNCHANGED <<net, conn, stackVars, ensureVars, millisVars>>

\* except socket.error: pass
Except ==
    /\ pc = "except"
    /\ probe' = Pending(None, None)
    /\ pc' = "finally"
    /\ UNCHANGED <<net, conn, stackVars, ensureVars, millisVars>>

\* finally: connection.close(); then the pending return or exception leaves
\* the function.
Finally ==
    /\ pc = "finally"
    /\ conn' = Close(conn, probe.exc)
    /\ probe' = [ret |-> probe.ret, exc |-> None, raised |-> probe.exc]
    /\ pc' = "done"
    /\ UNCHANGED <<net, stackVars, ensureVars, millisVars>>

NextProbe ==
    \/ Connect
    \/ Request
    \/ GetResponse
    \/ CheckStatus
    \/ Read
    \/ Except
    \/ Finally

ProbeInit == InitProbe /\ IdleStack /\ IdleEnsure /\ IdleMillis

SpecProbe == ProbeInit /\ [][NextProbe]_vars

\* The endpoint is unavailable to this call: a socket-level error stops the
\* request, the response or the reading of the body, or the response comes
\* with a status other than 200.
Unavailable ==
    \/ net.request \in SocketErrors
    \/ /\ net.request = "ok"
       /\ \/ net.response \in SocketErrors
          \/ /\ net.response = "ok"
             /\ \/ net.status # 200
                \/ net.status = 200 /\ net.read \in SocketErrors

\* C6: _compute_engine_id is best-effort. A call that meets no response in
\* time, a socket-level error or a non-200 status returns None and raises
\* nothing; a call returns a body only when the response's status is 200,
\* and then the body read.
BestEffort ==
    pc = "done"
    => /\ Unavailable => probe.ret = None /\ probe.raised = None
       /\ probe.ret # None
          => /\ net.request = "ok" /\ net.response = "ok"
             /\ net.status = 200 /\ net.read = "ok"
             /\ probe.ret = net.body /\ probe.raised = None

BestEffortWitness ==
    /\ pc = "done"
    /\ net.request = "ok" /\ net.response = "ECONNRESET"
    /\ probe.ret = None /\ probe.raised = None

\* C10: every call that has ended has closed its connection: after a 200
\* response, after another status, after a swallowed socket error, and when
\* an exception that is not a socket error leaves the function.
AlwaysClosed ==
    pc = "done" => conn = "closed"

AlwaysClosedWitness ==
    /\ pc = "done"
    /\ net.request = "ok" /\ net.response = "BadStatusLine"
    /\ probe.raised = "BadStatusLine"
    /\ conn = "closed"

(***************************************************************************)
(* _ensure_tuple_or_list                                                   *)
(***************************************************************************)

\* Longest argument tried, and the elements it is made of.
MaxLen == 3
Elements == {1, 2, 3}

\* A Python value: its class and its content (the items a container or a
\* string iterates over, in order; the one payload of a scalar).
Value(type, items) == [type |-> type, items |-> items]
NoValue == Value("NoneType", <<>>)

\* The classes tried, and for each the classes isinstance() finds it to be.
Containers == {"list", "tuple", "namedtuple", "str", "set", "dict"}
Scalars == {"int", "float"}
Bases(type) ==
    IF type = "namedtuple" THEN {"namedtuple", "tuple", "object"}
    ELSE {type, "object"}

SeqsUpTo(n) == UNION {[1..k -> Elements] : k \in 0..n}

Values ==
    {Value(c, items) : c \in Containers, items \in SeqsUpTo(MaxLen)}
    \cup {Value(c, <<n>>) : c \in Scalars, n \in Elements}
    \cup {NoValue}

\* isinstance(tuple_or_list, (tuple, list))
AcceptsIterable(v) == v.type \in Containers
Accepts(v) == Bases(v.type) \cap {"tuple", "list"} # {}

\* list(tuple_or_list): a new list built from the items in iteration order.
RECURSIVE Items(_)
Items(items) ==
    IF items = <<>> THEN <<>> ELSE <<Head(items)>> \o Items(Tail(items))

ListOf(v) == Value("list", Items(v.items))

Outcome(ret, err) == [done |-> TRUE, ret |-> ret, err |-> err]

InitEnsure ==
    /\ seqArg \in Values
    /\ seqOut = [done |-> FALSE, ret |-> NoValue, err |-> None]

_ensure_tuple_or_list ==
    /\ ~seqOut.done
    /\ seqOut' = IF ~Accepts(seqArg)
                 THEN Outcome(NoValue, "TypeError")
                 ELSE Outcome(ListOf(seqArg), None)
    /\ UNCHANGED <<seqArg, stackVars, probeVars, millisVars>>

NextEnsure == _ensure_tuple_or_list

EnsureInit == InitEnsure /\ IdleStack /\ IdleProbe /\ IdleMillis

SpecEnsure == EnsureInit /\ [][NextEnsure]_vars

\* C7: called with a list or a tuple, _ensure_tuple_or_list returns a list
\* holding the same elements in the same order and raises nothing; called
\* with any other value (a string, an integer, ...) it raises TypeError and
\* returns nothing.
EnsureListOrTuple ==
    seqOut.done
    => IF seqArg.type \in {"list", "tuple", "namedtuple"}
       THEN /\ seqOut.err = None
            /\ seqOut.ret.type = "list"
            /\ Len(seqOut.ret.items) = Len(seqArg.items)
            /\ \A i \in 1..Len(seqArg.items) : seqOut.ret.items[i] = seqArg.items[i]
       ELSE /\ seqOut.err = "TypeError"
            /\ seqOut.ret = NoValue

EnsureListOrTupleWitness ==
    /\ seqOut.done
    /\ seqArg = Value("tuple", <<1, 2, 3>>)
    /\ seqOut.ret = Value("list", <<1, 2, 3>>)
    /\ seqOut.err = None

(***************************************************************************)
(* _millis                                                                 *)
(***************************************************************************)

\* Datetimes tried: wall-clock seconds and milliseconds after
\* 1970-01-01T00:00:00 in the datetime's own zone.
MaxSec == 2
MaxMilli == 30
\* Microseconds tried within a millisecond, and the zones' UTC offsets in
\* seconds.
SubMillis == {0, 1, 999}
Offsets == {-60, 0, 60}

\* 10**6 microseconds in a second; the factor 1000 of _millis.
MICROS == 1000000
MILLIS == 1000
\* Width of the significand of a Python float (IEEE-754 binary64).
MANT_DIG == 53

\* UTC.utcoffset(dt): timedelta(0)
UtcOffset == 0

\* A zone-aware datetime.
DateTime(sec, micro, offset) == [sec |-> sec, micro |-> micro, offset |-> offset]

DateTimes ==
    {DateTime(sc, ms * MILLIS + sub, off) :
        sc \in 0..MaxSec, ms \in 0..MaxMilli, sub \in SubMillis, off \in Offsets}

\* _EPOCH = datetime.datetime.utcfromtimestamp(0).replace(tzinfo=UTC)
EPOCH == DateTime(0, 0, UtcOffset)

\* a - b for aware datetimes: both are taken to UTC; the difference is a
\* timedelta, normalised so that 0 <= microseconds < 10**6 (days are kept
\* inside seconds).
Sub(a, b) ==
    LET ds == (a.sec - a.offset) - (b.sec - b.offset)
        du == a.micro - b.micro
    IN IF du < 0 THEN [seconds |-> ds - 1, microseconds |-> du + MICROS]
       ELSE [seconds |-> ds, microseconds |-> du]

\* The w-bit binary numeral of n < 2^w, most significant bit first.
BitsOf(n, w) == [i \in 1..w |-> (n \div 2^(w - i)) % 2]

\* A numeral without its leading zeros (none left for 0).
StripZeros(bits) ==
    IF \A i \in 1..Len(bits) : bits[i] = 0 THEN <<>>
    ELSE LET first == CHOOSE i \in 1..Len(bits) :
                          bits[i] = 1 /\ \A j \in 1..(i - 1) : bits[j] = 0
         IN SubSeq(bits, first, Len(bits))

\* The bits of a natural number below 2^31 (none for 0).
ToBits(n) == StripZeros(BitsOf(n, 31))

\* The number a numeral of at most 31 bits stands for.
RECURSIVE FromBits(_)
FromBits(bits) ==
    IF Len(bits) = 0 THEN 0
    ELSE IF Len(bits) = 1 THEN bits[1]
    ELSE LET h == Len(bits) \div 2
         IN FromBits(SubSeq(bits, 1, h)) * 2^(Len(bits) - h)
            + FromBits(SubSeq(bits, h + 1, Len(bits)))

\* bits + 1
Inc(bits) ==
    IF \A i \in 1..Len(bits) : bits[i] = 1
    THEN <<1>> \o [i \in 1..Len(bits) |-> 0]
    ELSE LET z == CHOOSE i \in 1..Len(bits) :
                      bits[i] = 0 /\ \A j \in (i + 1)..Len(bits) : bits[j] = 1
         IN [i \in 1..Len(bits) |-> IF i < z THEN bits[i] ELSE IF i = z THEN 1 ELSE 0]

\* A float: sign, significand bits (MANT_DIG of them, the first 1; none for
\* zero) and exponent: (-1)^neg * mant * 2^exp.
Float(neg, mant, exp) == [neg |-> neg, mant |-> mant, exp |-> exp]

\* The float nearest to (-1)^neg * (bits + f) * 2^exp, ties to even, for a
\* numeral bits of more than MANT_DIG bits that starts with 1 and a
\* fraction 0 <= f < 1 that is not zero exactly when more is set.
Nearest(neg, bits, exp, more) ==
    LET keep == SubSeq(bits, 1, MANT_DIG)
        rest == SubSeq(bits, MANT_DIG + 1, Len(bits))
        e == exp + Len(rest)
        up == /\ rest[1] = 1
              /\ \/ \E i \in 2..Len(rest) : rest[i] = 1
                 \/ more
                 \/ keep[MANT_DIG] = 1
        m == Inc(keep)
    IN IF ~up THEN Float(neg, keep, e)
       ELSE IF Len(m) > MANT_DIG THEN Float(neg, SubSeq(m, 1, MANT_DIG), e + 1)
       ELSE Float(neg, m, e)

\* Long division of r/d, 0 <= r < d <= 2^21: the first 10*k bits of the
\* binary fraction, ten at a time, and the remainder left.
RECURSIVE DivBits(_, _, _)
DivBits(r, d, k) ==
    IF k = 0 THEN [bits |-> <<>>, r |-> r]
    ELSE LET q == (r * 1024) \div d
             next == DivBits((r * 1024) % d, d, k - 1)
         IN [bits |-> BitsOf(q, 10) \o next.bits, r |-> next.r]

\* n / d for integers n and d > 0 as Python's true division gives it: the
\* float nearest to the quotient, ties to even. For d <= 2^20 a quotient
\* that is not 0 is at least 2^-20, so its first 80 fraction bits hold
\* more than MANT_DIG significant bits.
TrueDivide(n, d) ==
    IF n = 0 THEN Float(FALSE, <<>>, 0)
    ELSE LET a == IF n < 0 THEN -n ELSE n
             q == DivBits(a % d, d, 8)
             all == ToBits(a \div d) \o q.bits
             sig == StripZeros(all)
         IN Nearest(n < 0, sig, -Len(q.bits), q.r # 0)

\* x * k for a float x and a natural k <= 1024 (exact as a float): the float
\* nearest to the product, ties to even. The significand is multiplied in
\* three limbs, of 13, 20 and 20 bits.
FloatMul(x, k) ==
    IF x.mant = <<>> THEN x
    ELSE LET lo == FromBits(SubSeq(x.mant, 34, 53)) * k
             mid == FromBits(SubSeq(x.mant, 14, 33)) * k + lo \div 2^20
             hi == FromBits(SubSeq(x.mant, 1, 13)) * k + mid \div 2^20
             p == ToBits(hi) \o BitsOf(mid % 2^20, 20) \o BitsOf(lo % 2^20, 20)
         IN IF Len(p) > MANT_DIG THEN Nearest(x.neg, p, x.exp, FALSE)
            ELSE Float(x.neg, p, x.exp)

\* int(x): x without its fraction (towards zero).
Trunc(x) ==
    LET n == Len(x.mant) + x.exp
        m == IF n <= 0 THEN 0 ELSE FromBits(SubSeq(x.mant, 1, n))
    IN IF x.neg THEN -m ELSE m

\* _total_seconds(offset): the microseconds of the timedelta over 10**6.
_total_seconds(offset) ==
    TrueDivide(offset.seconds * MICROS + offset.microseconds, MICROS)

\* int(_total_seconds(when - _EPOCH) * 1000)
Millis(w) == Trunc(FloatMul(_total_seconds(Sub(w, EPOCH)), MILLIS))

InitMillis ==
    /\ when \in DateTimes
    /\ millisOut = [done |-> FALSE, ret |-> 0]

_millis ==
    /\ ~millisOut.done
    /\ millisOut' = [done |-> TRUE, ret |-> Millis(when)]
    /\ UNCHANGED <<when, stackVars, probeVars, ensureVars>>

NextMillis == _millis

MillisInit == InitMillis /\ IdleStack /\ IdleProbe /\ IdleEnsure

SpecMillis == MillisInit /\ [][NextMillis]_vars

\* Microseconds from the epoch to a datetime, in exact integer arithmetic.
Elapsed(w) == ((w.sec - w.offset) * MICROS + w.micro)

\* C8: _millis returns the whole number of milliseconds from the epoch to
\* the datetime: for a datetime a whole number m of milliseconds after (or
\* before) the epoch it returns m, so 1000 for one second after the epoch
\* and 0 for the epoch itself.
MillisExact ==
    (millisOut.done /\ Elapsed(when) % MILLIS = 0)
    => millisOut.ret * MILLIS = Elapsed(when)

\* The two datetimes the claim names do convert as it says.
MillisNamedCases ==
    millisOut.done
    => /\ Elapsed(when) = 0 => millisOut.ret = 0
       /\ Elapsed(when) = MICROS => millisOut.ret = 1000

====
